---- MODULE Spec2Model ----
(***************************************************************************)
(* s3cpbp: a Lister goroutine streams the keys of a paginated S3 listing   *)
(* into a buffered channel, a pool of Worker goroutines drains the channel *)
(* and downloads each key with up to three attempts, and main waits on a   *)
(* WaitGroup.  log.Fatalf ends the whole process.                          *)
(***************************************************************************)
EXTENDS Naturals, Sequences, FiniteSets

\* ---------------------------------------------------------------- bounds
\* Largest number of keys in the listing.
MaxKeys == 2
\* Largest value of cfg.Concurrency the model tries.
MaxWorkers == 2
\* Keys per listing page (every page but the last is full).
PageSize == 1
\* Largest capacity of foundFilesChan the model tries, scaled down from the
\* program's 1000.
QueueCap == 2

\* ------------------------------------------------------ program constants
\* for attempt := 1; attempt <= 3; attempt++
MaxAttempts == 3
\* The final-attempt test one too late.
FinalAttemptLate == MaxAttempts + 1

\* if attempt == 3 { ... log.Fatalf }
FinalAttempt == 3

Keys == 1..MaxKeys

Max(a, b) == IF a >= b THEN a ELSE b
Min(a, b) == IF a <= b THEN a ELSE b

\* ------------------------------------------------------------ environment
\* The object the store holds for key k: one byte, the key's number.
Payload(k) == <<k>>

\* A path or an object key is the sequence of its segments, the pieces
\* between its separators: "a//b" is <<"a", "", "b">>.

\* cfg.Destination, taken to be an absolute path.
Destination == <<"dest">>

\* Last segments for the keys of a listing.
FileNames == <<"f1", "f2", "f3", "f4">>

\* How the listing names its keys: "distinct" names the k-th key
\* "a/f<k>"; "slashes" names it "a/b" with k separators in place of one
\* ("a/b", "a//b", "a///b": different keys of the bucket); "dotdot" names
\* it "../f<k>".  Init tries "slashes" on the listings of two keys, the
\* smallest that hold two such names, and "dotdot" on those of one key.
Namings == {"distinct", "slashes", "dotdot"}

NameOf(n, k) ==
    IF n = "distinct" THEN <<"a", FileNames[k]>>
    ELSE IF n = "dotdot" THEN <<"..", FileNames[k]>>
    ELSE <<"a">> \o [i \in 1..(k - 1) |-> ""] \o <<"b">>

\* filepath.Clean on a rooted path: empty and "." segments are dropped and
\* ".." drops the segment before it (nothing at the root).
RECURSIVE CleanFrom(_, _)
CleanFrom(done, rest) ==
    IF rest = << >> THEN done
    ELSE IF Head(rest) \in {"", "."} THEN CleanFrom(done, Tail(rest))
    ELSE IF Head(rest) = ".."
         THEN CleanFrom(IF done = << >> THEN done
                        ELSE SubSeq(done, 1, Len(done) - 1), Tail(rest))
    ELSE CleanFrom(Append(done, Head(rest)), Tail(rest))

Clean(path) == CleanFrom(<< >>, path)

\* filepath.Join(elem...): the elements joined by separators, then cleaned.
Join(dir, name) == Clean(dir \o name)

\* Every local path a key of some listing is written to.
AllPaths == {Join(Destination, NameOf(n, k)) : n \in Namings, k \in Keys}

\* What a file left at a local path by an earlier run holds: more bytes than
\* any payload, and none that a payload or a failing call writes.
OldContent == <<9, 9, 9>>

\* What a failing Download call may have written before it failed: nothing,
\* or two bytes (longer than any payload).
PartialData == {<< >>, <<0, 0>>}

\* The listing of n keys 1..n, in pages of PageSize; an empty listing is
\* one empty page.
PagesOf(n) ==
    IF n = 0 THEN << << >> >>
    ELSE [p \in 1..((n + PageSize - 1) \div PageSize) |->
            [i \in 1..Min(PageSize, n - (p - 1) * PageSize) |->
                (p - 1) * PageSize + i]]

\* os.File.WriteAt: data lands at offset off, bytes outside it are kept, a
\* gap is zero-filled; the file is never shortened.
WriteAt(f, data, off) ==
    [i \in 1..Max(Len(f), off + Len(data)) |->
        IF i > off /\ i <= off + Len(data) THEN data[i - off]
        ELSE IF i <= Len(f) THEN f[i] ELSE 0]

\* os.File.Truncate as the code would break it: the content is left alone.
TruncateKeeps(f, size) == f

\* os.File.Truncate(size): cut or zero-extend to size bytes.
Truncate(f, size) ==
    [i \in 1..size |-> IF i <= Len(f) THEN f[i] ELSE 0]

VARIABLES
    pages,        \* the listing: a sequence of pages, each a sequence of keys
    naming,       \* how the listing names its keys
    stale,        \* the local paths at which a file existed before the run
    failAt,       \* the page request that fails (Len(pages) + 1: none)
    run,          \* "running" | "done" | "version" | "fatal"
    pcMain,       \* main's position
    showVersion,  \* Parse's second result: the version flag was given
    lookup,       \* GetBucketRegion's call, while initializeS3Client runs
    concurrency,  \* cfg.Concurrency
    wg,           \* the WaitGroup's counter
    report,       \* the count of the final "All done!" line
    pcL,          \* the Lister's position
    pageIdx,      \* pages fetched so far
    objIdx,       \* objects of the current page already sent
    capacity,     \* foundFilesChan's capacity: make(chan string, capacity)
    chan,         \* foundFilesChan's buffer
    closed,       \* foundFilesChan is closed
    discovered,   \* totalFiles
    completed,    \* finishedFiles
    workers,      \* the started workers: [pc, key, attempt, finished, err]
    exists,       \* the local paths at which a file exists
    content,      \* the content of the file at each local path
    \* history
    pageRequests, \* NextPage calls made
    listErr,      \* a page request failed
    pushed,       \* times each key was sent on the channel
    delivered,    \* times downloadFile was invoked for each key
    fetches,      \* Download calls made for each key
    failures,     \* Download calls that failed, for each key
    counted,      \* times each key was counted in finishedFiles
    prepFailed,   \* keys whose MkdirAll or Create failed
    resetFailed,  \* keys whose Seek or Truncate failed
    everBlocked,  \* keys whose send found the channel full
    lines,        \* the log lines downloadFile printed for each key
    cause         \* the exit that ended the run: [kind, key]

vars == <<pages, naming, stale, failAt, capacity, run, pcMain, showVersion, lookup, concurrency, wg, report, pcL, pageIdx,
          objIdx, chan, closed, discovered, completed, workers, exists,
          content, pageRequests, listErr, pushed, delivered, fetches,
          failures, counted, prepFailed, resetFailed, everBlocked, lines,
          cause>>

mainVars == <<pcMain, showVersion, lookup, concurrency, wg, report>>
listerVars == <<pcL, pageIdx, objIdx, pageRequests, listErr>>
fileVars == <<exists, content>>
inputVars == <<pages, naming, stale, failAt, capacity>>

NoCause == [kind |-> "none", key |-> 0]

Zero == [k \in Keys |-> 0]

\* GetBucketRegion has not been called, or its results are out of scope.
NoLookup == [called |-> FALSE, constraint |-> "", region |-> "", err |-> FALSE]

Init ==
    /\ \E n \in 0..MaxKeys :
         /\ pages = PagesOf(n)
         /\ failAt \in 1..(Len(PagesOf(n)) + 1)
         /\ naming \in (IF n = 2 THEN {"distinct", "slashes"}
                        ELSE IF n = 1 THEN {"distinct", "dotdot"}
                        ELSE {"distinct"})
         /\ stale \in (IF (n = 1 /\ naming = "distinct") \/ naming = "slashes"
                       THEN {{}, {Join(Destination, NameOf(naming, 1))}}
                       ELSE {{}})
         /\ capacity \in (IF n >= 2 THEN 1..QueueCap ELSE {1})
    /\ run = "running"
    /\ pcMain = "parse"
    /\ showVersion = FALSE
    /\ lookup = NoLookup
    /\ concurrency = 0
    /\ wg = 0
    /\ report = 0
    /\ pcL = "unstarted"
    /\ pageIdx = 0
    /\ objIdx = 0
    /\ chan = << >>
    /\ closed = FALSE
    /\ discovered = 0
    /\ completed = 0
    /\ workers = << >>
    /\ exists = stale
    /\ content = [p \in AllPaths |-> IF p \in stale THEN OldContent ELSE << >>]
    /\ pageRequests = 0
    /\ listErr = FALSE
    /\ pushed = Zero
    /\ delivered = Zero
    /\ fetches = Zero
    /\ failures = Zero
    /\ counted = Zero
    /\ prepFailed = {}
    /\ resetFailed = {}
    /\ everBlocked = {}
    /\ lines = [k \in Keys |-> << >>]
    /\ cause = NoCause

\* main's log.Fatalf("Failed to initialize S3 client"): the message, then
\* os.Exit(1).  main is the only goroutine there is at that point.
LogFatalf(kind, k) ==
    /\ run' = "fatal"
    /\ cause' = [kind |-> kind, key |-> k]

Running == run = "running"

\* ------------------------------------------------------------------ main
\* A main that goes on after Parse whatever showVersion is.
VersionIgnored(sv) == FALSE

\* if showVersion { return }
VersionReturns(sv) == sv

\* The ways config.Parse ends the process instead of returning: flag.Parse
\* exits on a command line it cannot parse ("flags"); log.Fatal when
\* -bucket, -prefix or -destination is empty ("required"); log.Fatalf when
\* os.MkdirAll(destination) fails ("destination").
ParseExits == {"flags", "required", "destination"}

\* config.Parse ends the process: the usage of flag.Parse and os.Exit(2), or
\* the message of log.Fatal or log.Fatalf and os.Exit(1).  main is the only
\* goroutine there is at that point.
ParseExit(kind) ==
    /\ run' = "fatal"
    /\ cause' = [kind |-> kind, key |-> 0]

\* What a call of config.Parse comes to: it returns, or the process ends in
\* one of ParseExits.
ParseOutcomes == {"returns"} \cup ParseExits

\* cfg, showVersion := parseConfigFunc(version); if showVersion { return }.
\* Parse puts no lower bound on the concurrency flag.  flag.Parse exits
\* before showVersion is looked at; the version flag returns before the
\* required flags are checked and the destination directory is made.
MainParse ==
    /\ Running /\ pcMain = "parse"
    /\ \E o \in ParseOutcomes, sv \in BOOLEAN, c \in 0..MaxWorkers :
         IF o = "flags"
         THEN /\ ParseExit("flags")
              /\ UNCHANGED <<showVersion, concurrency, pcMain>>
         ELSE /\ showVersion' = sv
              /\ IF VersionReturns(sv)
                 THEN /\ run' = "version"
                      /\ pcMain' = "returned"
                      /\ UNCHANGED <<concurrency, cause>>
                 ELSE IF o \in ParseExits
                 THEN /\ ParseExit(o)
                      /\ UNCHANGED <<concurrency, pcMain>>
                 ELSE /\ concurrency' = c
                      /\ pcMain' = "init"
                      /\ UNCHANGED <<run, cause>>
    /\ UNCHANGED <<inputVars, lookup, wg, report, listerVars, chan, closed,
                   discovered, completed, workers, fileVars, pushed, delivered,
                   lines, fetches, failures, counted, prepFailed, resetFailed,
                   everBlocked>>

\* The location constraints GetBucketLocation may answer with; "" is the
\* answer for a bucket in US Standard.
Locations == {"", "eu-west-1", "ap-south-1"}

\* GetBucketRegion handing the location constraint on as it is.
GetBucketRegionNoDefault(constraint, failed) ==
    IF failed
    THEN [called |-> TRUE, constraint |-> constraint, region |-> "",
          err |-> TRUE]
    ELSE [called |-> TRUE, constraint |-> constraint, region |-> constraint,
          err |-> FALSE]

\* GetBucketRegion(client, bucket), GetBucketLocation having failed or
\* answered with constraint: "" and the error, or the region and nil.
GetBucketRegion(constraint, failed) ==
    IF failed
    THEN [called |-> TRUE, constraint |-> constraint, region |-> "",
          err |-> TRUE]
    ELSE [called |-> TRUE, constraint |-> constraint,
          region |-> IF constraint = "" THEN "us-east-1" ELSE constraint,
          err |-> FALSE]

\* client, err := initializeS3Client(cfg.Bucket), up to its GetBucketRegion
\* call: LoadDefaultConfig or the region lookup may fail, and main then
\* ends in log.Fatalf.
MainInitClient ==
    /\ Running /\ pcMain = "init"
    /\ \E ok \in BOOLEAN :
         IF ok
         THEN \E constraint \in Locations, failed \in BOOLEAN :
                /\ (failed => constraint = "")
                /\ lookup' = GetBucketRegion(constraint, failed)
                /\ IF lookup'.err
                   THEN /\ LogFatalf("init", 0)
                        /\ UNCHANGED pcMain
                   ELSE /\ pcMain' = "client"
                        /\ UNCHANGED <<run, cause>>
         ELSE /\ LogFatalf("init", 0)
              /\ UNCHANGED <<pcMain, lookup>>
    /\ UNCHANGED <<inputVars, showVersion, concurrency, wg, report, listerVars,
                   chan, closed, discovered, completed, workers, fileVars,
                   pushed, delivered, lines, fetches, failures, counted,
                   prepFailed, resetFailed, everBlocked>>

\* The rest of initializeS3Client: LoadDefaultConfig(WithRegion(region)),
\* s3.NewFromConfig, return; region goes out of scope.  An error ends main
\* in log.Fatalf.
MainNewClient ==
    /\ Running /\ pcMain = "client"
    /\ \E ok \in BOOLEAN :
         IF ok
         THEN /\ pcMain' = "startLister"
              /\ lookup' = NoLookup
              /\ UNCHANGED <<run, cause>>
         ELSE /\ LogFatalf("init", 0)
              /\ UNCHANGED <<pcMain, lookup>>
    /\ UNCHANGED <<inputVars, showVersion, concurrency, wg, report, listerVars,
                   chan, closed, discovered, completed, workers, fileVars,
                   pushed, delivered, lines, fetches, failures, counted,
                   prepFailed, resetFailed, everBlocked>>

\* foundFilesChan := make(chan string, 1000); go s3ops.ListFiles(...)
MainStartLister ==
    /\ Running /\ pcMain = "startLister"
    /\ pcMain' = "spawn"
    /\ pcL' = "hasMore"
    /\ UNCHANGED <<inputVars, run, showVersion, lookup, concurrency, wg, report,
                   pageIdx, objIdx,
                   pageRequests, listErr, chan, closed, discovered, completed,
                   workers, fileVars, pushed, delivered, lines, fetches, failures,
                   counted, prepFailed, resetFailed, everBlocked, cause>>

\* The spawn loop with an off-by-one bound: i <= cfg.Concurrency.
SpawnLoopCondInclusive == Len(workers) <= concurrency /\ Len(workers) <= MaxWorkers

\* for i := 0; i < cfg.Concurrency; i++
SpawnLoopCond == Len(workers) < concurrency

\* A Worker value as main builds it; its goroutine is at the range's receive.
NewWorker ==
    [pc |-> "recv", key |-> 0, attempt |-> 0, finished |-> 0, err |-> ""]

\* wg.Add(1); worker := download.Worker{...}; go worker.Start()
MainSpawnWorker ==
    /\ Running /\ pcMain = "spawn"
    /\ SpawnLoopCond
    /\ wg' = wg + 1
    /\ workers' = Append(workers, NewWorker)
    /\ UNCHANGED <<inputVars, run, pcMain, showVersion, lookup, concurrency,
                   report, listerVars, chan,
                   closed, discovered, completed, fileVars, pushed, delivered, lines,
                   fetches, failures, counted, prepFailed, resetFailed, everBlocked, cause>>

\* wg.Wait(); log.Printf("All done! Downloaded %d files ...", finishedFiles.Load());
\* main returns and the process exits, whatever the other goroutines are doing.
MainWait ==
    /\ Running /\ pcMain = "spawn"
    /\ ~SpawnLoopCond
    /\ wg = 0
    /\ report' = completed
    /\ pcMain' = "returned"
    /\ run' = "done"
    /\ UNCHANGED <<inputVars, showVersion, lookup, concurrency, wg, listerVars,
                   chan, closed,
                   discovered, completed, workers, fileVars, pushed, delivered, lines,
                   fetches, failures, counted, prepFailed, resetFailed, everBlocked, cause>>

MainStep ==
    \/ MainParse
    \/ MainInitClient
    \/ MainNewClient
    \/ MainStartLister
    \/ MainSpawnWorker
    \/ MainWait

\* ---------------------------------------------------------------- Lister
\* paginator.HasMorePages(): the first page, or a page after a truncated one.
HasMorePages == pageIdx < Len(pages)

\* A range loop that leaves out the last object of each page.
AfterObjectSkipsLast(p, i) ==
    IF i + 1 < Len(pages[p]) THEN "count" ELSE "hasMore"

\* Where the Lister goes once i objects of page p are sent: the next object
\* of the range loop, or back to the paginator.
AfterObject(p, i) == IF i < Len(pages[p]) THEN "count" ELSE "hasMore"

\* The key the Lister is counting or sending.
CurrentKey == pages[pageIdx][objIdx + 1]

\* page, err := paginator.NextPage(ctx) with err == nil
ListerNextPageOk ==
    /\ Running /\ pcL = "hasMore"
    /\ HasMorePages
    /\ pageRequests + 1 # failAt
    /\ pageRequests' = pageRequests + 1
    /\ pageIdx' = pageIdx + 1
    /\ objIdx' = 0
    /\ pcL' = AfterObject(pageIdx + 1, 0)
    /\ UNCHANGED <<inputVars, run, mainVars, listErr, chan, closed, discovered,
                   completed, workers, fileVars, pushed, delivered, lines, fetches,
                   failures, counted, prepFailed, resetFailed, everBlocked, cause>>

\* The error branch as a retry: log the error and ask for the page again.
ListerErrorRetries ==
    /\ pcL' = "hasMore"
    /\ UNCHANGED closed

\* The error branch returning from a ListFiles that closes the channel only
\* at its end, not in a defer.
ListerErrorReturnsOpen ==
    /\ pcL' = "done"
    /\ UNCHANGED closed

\* if err != nil { log.Printf("Error listing objects"); return }, and the
\* deferred close(foundFilesChan) runs.
ListerErrorReturns ==
    /\ pcL' = "done"
    /\ closed' = TRUE

\* page, err := paginator.NextPage(ctx) with err != nil
ListerNextPageErr ==
    /\ Running /\ pcL = "hasMore"
    /\ HasMorePages
    /\ pageRequests + 1 = failAt
    /\ pageRequests' = pageRequests + 1
    /\ listErr' = TRUE
    /\ ListerErrorReturns
    /\ UNCHANGED <<inputVars, run, mainVars, pageIdx, objIdx, chan, discovered,
                   completed, workers, fileVars, pushed, delivered, lines, fetches,
                   failures, counted, prepFailed, resetFailed, everBlocked, cause>>

\* HasMorePages() is false: ListFiles returns, the deferred close runs.
ListerReturn ==
    /\ Running /\ pcL = "hasMore"
    /\ ~HasMorePages
    /\ pcL' = "done"
    /\ closed' = TRUE
    /\ UNCHANGED <<inputVars, run, mainVars, pageIdx, objIdx, pageRequests,
                   listErr, chan, discovered, completed, workers, fileVars,
                   pushed, delivered, lines, fetches, failures, counted, prepFailed, resetFailed,
                   everBlocked, cause>>

\* An increment by two.
TotalFilesAddTwice == discovered + 1 + 1

\* The increment left out.
TotalFilesAddSkipped == discovered

\* totalFiles.Add(1)
TotalFilesAdd == discovered + 1

\* totalFiles.Add(1), the first statement of the range body
ListerCount ==
    /\ Running /\ pcL = "count"
    /\ discovered' = TotalFilesAdd
    /\ pcL' = "push"
    /\ UNCHANGED <<inputVars, run, mainVars, pageIdx, objIdx, pageRequests,
                   listErr, chan, closed, completed, workers, fileVars, pushed,
                   delivered, lines, fetches, failures, counted, prepFailed, resetFailed, everBlocked,
                   cause>>

\* A send onto a bounded stack: the newest key is handed out first.
SendOntoStack(c, k) ==
    IF Len(c) < capacity THEN <<TRUE, <<k>> \o c>> ELSE <<FALSE, c>>

\* A send on a channel without a capacity: it never blocks.
SendUnbounded(c, k) == <<TRUE, Append(c, k)>>

\* A send that gives up when the buffer is full (select with a default
\* branch): the Lister goes on and the key is gone.
SendOrDrop(c, k) ==
    IF Len(c) < capacity THEN <<TRUE, Append(c, k)>> ELSE <<TRUE, c>>

\* foundFilesChan <- k on the buffered channel: <<the send returns, the
\* buffer after it>>.  With the buffer full the send blocks.
Send(c, k) ==
    IF Len(c) < capacity THEN <<TRUE, Append(c, k)>> ELSE <<FALSE, c>>

\* foundFilesChan <- *obj.Key
ListerPush ==
    /\ Running /\ pcL = "push"
    /\ Send(chan, CurrentKey)[1]
    /\ chan' = Send(chan, CurrentKey)[2]
    /\ pushed' = [pushed EXCEPT ![CurrentKey] = @ + 1]
    /\ objIdx' = objIdx + 1
    /\ pcL' = AfterObject(pageIdx, objIdx + 1)
    /\ UNCHANGED <<inputVars, run, mainVars, pageIdx, pageRequests, listErr,
                   closed, discovered, completed, workers, fileVars, delivered, lines,
                   fetches, failures, counted, prepFailed, resetFailed,
                   everBlocked, cause>>

ListerStep ==
    \/ ListerNextPageOk
    \/ ListerNextPageErr
    \/ ListerReturn
    \/ ListerCount
    \/ ListerPush

\* ---------------------------------------------------------------- Worker
\* What no worker step writes.
workerFrame == <<inputVars, pcMain, showVersion, lookup, concurrency, report,
                 listerVars, closed, discovered>>

KeyOf(w) == workers[w].key

\* localPath := filepath.Join(w.Destination, key)
LocalPath(k) == Join(Destination, NameOf(naming, k))

LocalPathOf(w) == LocalPath(KeyOf(w))

\* dir := filepath.Dir(localPath): the path without its last element.
Dir(path) == SubSeq(path, 1, Len(path) - 1)

At(w, pc) == Running /\ w <= Len(workers) /\ workers[w].pc = pc

Goto(w, pc) == workers' = [workers EXCEPT ![w].pc = pc]

\* A receive that hands the head out and leaves it in the buffer.
ChanRestKeepsHead(c) == c

\* The buffer after a receive took its head.
ChanRest(c) == Tail(c)

\* A range that hands keys out only once the channel is closed.
RangeWaitsForClose(c, cl) == c # << >> /\ cl

\* for key := range w.FilesChan yields a key as soon as the buffer holds
\* one, whether or not the channel is closed.
RangeReceives(c, cl) == c # << >>

\* for key := range w.FilesChan, a key is there: w.downloadFile(key) begins.
WorkerRecv(w) ==
    /\ At(w, "recv")
    /\ RangeReceives(chan, closed)
    /\ workers' = [workers EXCEPT ![w] = [pc |-> "mkdir", key |-> Head(chan),
                                          attempt |-> 0, finished |-> 0,
                                          err |-> ""]]
    /\ chan' = ChanRest(chan)
    /\ delivered' = [delivered EXCEPT ![Head(chan)] = @ + 1]
    /\ everBlocked' = IF pcL = "push" /\ Len(chan) >= capacity
                      THEN everBlocked \cup {CurrentKey}
                      ELSE everBlocked
    /\ UNCHANGED <<workerFrame, run, wg, completed, fileVars, pushed, fetches,
                   failures, counted, prepFailed, resetFailed, lines, cause>>

\* A range that ends as soon as the buffer is empty.
RangeEndsOnEmpty(c, cl) == c = << >>

\* for key := range w.FilesChan ends when the channel is closed and every
\* key sent before the close has been received.
RangeEnds(c, cl) == c = << >> /\ cl

\* The range ends: the channel is closed and empty. defer w.WaitGroup.Done().
WorkerExit(w) ==
    /\ At(w, "recv")
    /\ RangeEnds(chan, closed)
    /\ Goto(w, "exited")
    /\ wg' = wg - 1
    /\ UNCHANGED <<workerFrame, run, chan, completed, fileVars, pushed,
                   delivered, lines, fetches, failures, counted, prepFailed,
                   resetFailed, everBlocked, cause>>

\* if err != nil { log.Fatalf("Worker %d: Failed to create ...") }: the
\* worker is on its way into log.Fatalf; the other goroutines run on.
OnPrepareError(w, kind) ==
    workers' = [workers EXCEPT ![w].pc = "fatalf", ![w].err = kind]

\* os.MkdirAll(dir, os.ModePerm)
WorkerMkdirAll(w) ==
    /\ At(w, "mkdir")
    /\ \E ok \in BOOLEAN :
         IF ok
         THEN /\ Goto(w, "create")
              /\ UNCHANGED prepFailed
         ELSE /\ prepFailed' = prepFailed \cup {KeyOf(w)}
              /\ OnPrepareError(w, "mkdir")
    /\ UNCHANGED <<workerFrame, run, cause, wg, chan, completed, fileVars,
                   pushed, delivered, lines, fetches, failures, counted,
                   resetFailed, everBlocked>>

\* An open without O_TRUNC: the bytes of an existing file stay.
CreateKeepsContent(f) == f

\* os.Create opens with O_RDWR|O_CREATE|O_TRUNC: whatever the file held, it
\* is empty afterwards.
Create(f) == << >>

\* file, err := os.Create(localPath): the file exists and is empty.
WorkerCreate(w) ==
    /\ At(w, "create")
    /\ \E ok \in BOOLEAN :
         IF ok
         THEN /\ exists' = exists \cup {LocalPathOf(w)}
              /\ content' = [content EXCEPT ![LocalPathOf(w)] = Create(@)]
              /\ workers' = [workers EXCEPT ![w].pc = "download",
                                            ![w].attempt = 1]
              /\ UNCHANGED prepFailed
         ELSE /\ prepFailed' = prepFailed \cup {KeyOf(w)}
              /\ OnPrepareError(w, "create")
              /\ UNCHANGED fileVars
    /\ UNCHANGED <<workerFrame, run, cause, wg, chan, completed, pushed,
                   delivered, lines, fetches, failures, counted, resetFailed,
                   everBlocked>>

\* The head of the retry loop: attempt <= 3 calls w.Downloader.Download, and
\* a loop that runs out falls through to the success code after it.
WorkerDownloadInvoke(w) ==
    /\ At(w, "download")
    /\ IF workers[w].attempt <= MaxAttempts
       THEN /\ Goto(w, "inflight")
            /\ fetches' = [fetches EXCEPT ![KeyOf(w)] = @ + 1]
       ELSE /\ Goto(w, "add")
            /\ UNCHANGED fetches
    /\ UNCHANGED <<workerFrame, run, wg, chan, completed, fileVars, pushed,
                   delivered, lines, failures, counted, prepFailed, resetFailed,
                   everBlocked, cause>>

\* A successful attempt without the break: attempt++ and the loop goes on.
SuccessContinues(w) ==
    workers' = [workers EXCEPT ![w].pc = "download", ![w].attempt = @ + 1]

\* if err == nil { break }: on to the code after the loop.
SuccessBreaks(w) == Goto(w, "add")

\* Download returns nil: the payload is in the file; break.
WorkerDownloadOk(w) ==
    /\ At(w, "inflight")
    /\ content' = [content EXCEPT
                     ![LocalPathOf(w)] = WriteAt(@, Payload(KeyOf(w)), 0)]
    /\ SuccessBreaks(w)
    /\ UNCHANGED <<workerFrame, run, wg, chan, completed, exists, pushed,
                   delivered, lines, fetches, failures, counted, prepFailed,
                   resetFailed, everBlocked, cause>>

\* file.Close(); os.Remove(localPath).  The result of os.Remove is not
\* looked at: when it fails the file stays as it is.
RemoveFile(path) ==
    \E ok \in BOOLEAN :
        IF ok
        THEN /\ exists' = exists \ {path}
             /\ content' = [content EXCEPT ![path] = << >>]
        ELSE UNCHANGED <<exists, content>>

\* log.Printf("Worker %d: Attempt %d: Failed to download %s: %v", ...): what
\* a failed attempt prints, before the attempt == 3 test.
FailureLine(k, attempt) ==
    <<[kind |-> "failure", key |-> k, attempt |-> attempt]>>

\* Download returns an error, having written d to the file.  Nothing is
\* printed yet: the log.Printf of the attempt is a later step of the worker.
WorkerDownloadErr(w) ==
    /\ At(w, "inflight")
    /\ failures' = [failures EXCEPT ![KeyOf(w)] = @ + 1]
    /\ \E d \in PartialData :
         content' = [content EXCEPT ![LocalPathOf(w)] = WriteAt(@, d, 0)]
    /\ Goto(w, "logfail")
    /\ UNCHANGED <<workerFrame, run, cause, exists, wg, chan, completed, pushed,
                   delivered, lines, fetches, counted, prepFailed, resetFailed,
                   everBlocked>>

\* The failed attempt is logged, then if attempt == 3: after the 3rd failure
\* the worker goes on to the clean-up that precedes its log.Fatalf, after an
\* earlier one to the reset.
WorkerLogFailure(w) ==
    /\ At(w, "logfail")
    /\ lines' = [lines EXCEPT
                   ![KeyOf(w)] = @ \o FailureLine(KeyOf(w), workers[w].attempt)]
    /\ IF workers[w].attempt = FinalAttempt
       THEN workers' = [workers EXCEPT ![w].pc = "remove",
                                       ![w].err = "exhausted"]
       ELSE Goto(w, "seek")
    /\ UNCHANGED <<workerFrame, run, cause, fileVars, wg, chan, completed,
                   pushed, delivered, fetches, failures, counted, prepFailed,
                   resetFailed, everBlocked>>

\* log.Printf("Worker %d: Failed to seek file %s before retry: %v", w.ID,
\* localPath, seekErr) and its like for Truncate: the line names the local
\* path, not the key.
ResetFailureLine(k, kind) ==
    [kind |-> "reset", path |-> LocalPath(k), call |-> kind]

\* A failed Seek or Truncate handled by logging and taking the next key.
OnResetErrorSkipsKey(w, kind) ==
    /\ lines' = [lines EXCEPT
                   ![KeyOf(w)] = Append(@, ResetFailureLine(KeyOf(w), kind))]
    /\ workers' = [workers EXCEPT ![w] = NewWorker]

\* if seekErr != nil / if err != nil { log.Printf(...); ... }: the failure is
\* logged and the worker goes on to the clean-up that precedes its
\* log.Fatalf.
OnResetError(w, kind) ==
    /\ lines' = [lines EXCEPT
                   ![KeyOf(w)] = Append(@, ResetFailureLine(KeyOf(w), kind))]
    /\ workers' = [workers EXCEPT ![w].pc = "remove", ![w].err = kind]

\* _, seekErr := file.Seek(0, io.SeekStart)
WorkerSeek(w) ==
    /\ At(w, "seek")
    /\ \E ok \in BOOLEAN :
         IF ok
         THEN /\ Goto(w, "truncate")
              /\ UNCHANGED <<lines, resetFailed>>
         ELSE /\ resetFailed' = resetFailed \cup {KeyOf(w)}
              /\ OnResetError(w, "seek")
    /\ UNCHANGED <<workerFrame, run, cause, fileVars, wg, chan, completed,
                   pushed, delivered, fetches, failures, counted, prepFailed,
                   everBlocked>>

\* err = file.Truncate(0), then attempt++
WorkerTruncate(w) ==
    /\ At(w, "truncate")
    /\ \E ok \in BOOLEAN :
         IF ok
         THEN /\ content' = [content EXCEPT
                                ![LocalPathOf(w)] = Truncate(@, 0)]
              /\ workers' = [workers EXCEPT ![w].pc = "download",
                                            ![w].attempt = @ + 1]
              /\ UNCHANGED <<lines, resetFailed>>
         ELSE /\ resetFailed' = resetFailed \cup {KeyOf(w)}
              /\ OnResetError(w, "truncate")
              /\ UNCHANGED content
    /\ UNCHANGED <<workerFrame, run, cause, exists, wg, chan, completed,
                   pushed, delivered, fetches, failures, counted, prepFailed,
                   everBlocked>>

\* file.Close(); os.Remove(localPath), before the log.Fatalf of an exhausted
\* key or of a failed reset.
WorkerRemove(w) ==
    /\ At(w, "remove")
    /\ RemoveFile(LocalPathOf(w))
    /\ Goto(w, "fatalf")
    /\ UNCHANGED <<workerFrame, run, cause, wg, chan, completed, pushed,
                   delivered, lines, fetches, failures, counted, prepFailed,
                   resetFailed, everBlocked>>

\* What log.Fatalf writes to the log before it exits.  The message names
\* the key after the third failed attempt, the parent directory after a
\* failed MkdirAll, and the local path after a failed Create, Seek or
\* Truncate.
FatalLine(k, kind) ==
    IF kind = "exhausted"
    THEN [kind |-> "fatal", key |-> k, call |-> kind]
    ELSE [kind |-> "fatal",
          path |-> IF kind = "mkdir" THEN Dir(LocalPath(k)) ELSE LocalPath(k),
          call |-> kind]

\* log.Fatalf(...), first half: the message is written to the log.
WorkerFatalf(w) ==
    /\ At(w, "fatalf")
    /\ lines' = [lines EXCEPT
                   ![KeyOf(w)] = Append(@, FatalLine(KeyOf(w), workers[w].err))]
    /\ Goto(w, "osexit")
    /\ UNCHANGED <<workerFrame, run, cause, wg, chan, completed, fileVars,
                   pushed, delivered, fetches, failures, counted, prepFailed,
                   resetFailed, everBlocked>>

\* log.Fatalf(...), second half: os.Exit(1) ends the process; no goroutine
\* takes another step.
WorkerOsExit(w) ==
    /\ At(w, "osexit")
    /\ run' = "fatal"
    /\ cause' = [kind |-> workers[w].err, key |-> KeyOf(w)]
    /\ UNCHANGED <<workerFrame, workers, wg, chan, completed, fileVars, pushed,
                   delivered, lines, fetches, failures, counted, prepFailed,
                   resetFailed, everBlocked>>

\* The increment left out.
FinishedFilesAddSkipped == completed

\* w.FinishedFiles.Add(1) returns the new value.
FinishedFilesAdd == completed + 1

\* finished := w.FinishedFiles.Add(1)
WorkerAdd(w) ==
    /\ At(w, "add")
    /\ completed' = FinishedFilesAdd
    /\ counted' = [counted EXCEPT ![KeyOf(w)] = @ + 1]
    /\ workers' = [workers EXCEPT ![w].pc = "load",
                                  ![w].finished = FinishedFilesAdd]
    /\ UNCHANGED <<workerFrame, run, wg, chan, fileVars, pushed, delivered, lines,
                   fetches, failures, prepFailed, resetFailed, everBlocked,
                   cause>>

\* log.Printf("Worker %d (%d/%d), downloaded %s", w.ID, finished, total, key)
ProgressLine(k, finished, total) ==
    [kind |-> "progress", key |-> k, finished |-> finished, total |-> total]

\* A finished value read again from the counter when the line is printed.
FinishedReloaded(w) == completed

\* The finished value of the progress line: the local that holds what
\* w.FinishedFiles.Add(1) returned.
Finished(w) == workers[w].finished

\* total := w.TotalFiles.Load(); the progress line; downloadFile returns
\* (the deferred file.Close()) and the range takes the next key.
WorkerLoad(w) ==
    /\ At(w, "load")
    /\ lines' = [lines EXCEPT
                   ![KeyOf(w)] = Append(@, ProgressLine(KeyOf(w),
                                             Finished(w), discovered))]
    /\ workers' = [workers EXCEPT ![w] = NewWorker]
    /\ UNCHANGED <<workerFrame, run, wg, chan, completed, fileVars, pushed,
                   delivered, fetches, failures, counted, prepFailed,
                   resetFailed, everBlocked, cause>>

WorkerStep(w) ==
    \/ WorkerRecv(w)
    \/ WorkerExit(w)
    \/ WorkerMkdirAll(w)
    \/ WorkerCreate(w)
    \/ WorkerDownloadInvoke(w)
    \/ WorkerDownloadOk(w)
    \/ WorkerDownloadErr(w)
    \/ WorkerLogFailure(w)
    \/ WorkerSeek(w)
    \/ WorkerTruncate(w)
    \/ WorkerRemove(w)
    \/ WorkerFatalf(w)
    \/ WorkerOsExit(w)
    \/ WorkerAdd(w)
    \/ WorkerLoad(w)

\* ------------------------------------------------------------ the program
Next ==
    \/ MainStep
    \/ ListerStep
    \/ \E w \in 1..(MaxWorkers + 1) : WorkerStep(w)

Spec == Init /\ [][Next]_vars

\* The Go scheduler runs every runnable goroutine, and every page request
\* and Download call returns.
Fairness ==
    /\ WF_vars(MainStep)
    /\ WF_vars(ListerStep)
    /\ \A w \in 1..MaxWorkers : WF_vars(WorkerStep(w))

FairSpec == Spec /\ Fairness

\* ------------------------------------------------------- derived notions
\* The keys of the pages fetched before the failing request: what the
\* Lister produces in a run that is left to finish.
Listed == UNION {{pages[p][i] : i \in DOMAIN pages[p]} : p \in 1..(failAt - 1)}

\* Copies of key k in the channel's buffer.
InChan(k) == Cardinality({i \in DOMAIN chan : chan[i] = k})

\* The workers inside downloadFile(k).
Holders(k) == {w \in 1..Len(workers) : workers[w].key = k}

\* The workers that have detected a fatal error and stand before the
\* clean-up, the message or the exit of their log.Fatalf.
Aborting ==
    {w \in 1..Len(workers) : workers[w].pc \in {"remove", "fatalf", "osexit"}}

\* The workers whose Download has returned an error that they have not yet
\* logged.
Logging == {w \in 1..Len(workers) : workers[w].pc = "logfail"}

\* The causes of an exit from main's goroutine, before the Lister and the
\* workers are started: the exits of config.Parse and the failed
\* initialisation of the S3 client.
MainExits == ParseExits \cup {"init"}

\* The workers between invoking Download and its return.
InFlight == {w \in 1..Len(workers) : workers[w].pc = "inflight"}

\* ----------------------------------------------------------------- claims

\* C1: Completeness.  When the run ends normally (main returns after the
\* join) and no fetch attempt failed, completed = discovered = N, N being
\* the number of keys the Lister produces.
C1_Completeness ==
    (run = "done" /\ \A k \in Keys : failures[k] = 0)
        => /\ completed = Cardinality(Listed)
           /\ discovered = Cardinality(Listed)

\* C2: At-most-one delivery.  Under every interleaving, a key sent on the
\* channel is either still in the buffer or was handed to exactly one
\* worker's downloadFile: never handed out twice, never lost, and no two
\* workers are inside downloadFile for the same key.
C2_AtMostOneDelivery ==
    \A k \in Keys :
        /\ pushed[k] <= 1
        /\ delivered[k] <= 1
        /\ delivered[k] + InChan(k) = pushed[k]
        /\ Cardinality(Holders(k)) <= delivered[k]

\* C2's case: two workers hold two different keys while the Lister has not
\* yet closed the channel.
C2_Witness ==
    /\ Len(workers) = 2
    /\ workers[1].key # 0
    /\ workers[2].key # 0
    /\ workers[1].key # workers[2].key
    /\ ~closed

\* C3: No content corruption on retry.  Once a fetch attempt for a key has
\* succeeded after one or two failed ones (the worker is past the retry
\* loop, or the key is counted), the destination file exists and holds
\* exactly the payload of the successful attempt, whatever the failed
\* attempts before it wrote.
C3_NoCorruptionOnRetry ==
    /\ \A w \in 1..Len(workers) :
         (workers[w].pc \in {"add", "load"} /\ failures[KeyOf(w)] >= 1)
            => /\ LocalPathOf(w) \in exists
               /\ content[LocalPathOf(w)] = Payload(KeyOf(w))
    /\ \A k \in Keys :
         (counted[k] >= 1 /\ failures[k] >= 1)
            => /\ LocalPath(k) \in exists
               /\ content[LocalPath(k)] = Payload(k)

\* C3's case: a key counted after two failed attempts.
C3_Witness ==
    \E k \in Keys :
        /\ failures[k] = 2
        /\ counted[k] = 1
        /\ content[LocalPath(k)] = Payload(k)

\* C4: Retry exhaustion.  No key sees a 4th Download call; a key whose 3
\* attempts all failed is not counted in completed, the run does not end
\* normally, and once the process has ended in log.Fatalf the key has no
\* destination file.
C4_RetryExhaustion ==
    \A k \in Keys :
        /\ fetches[k] <= 3
        /\ failures[k] >= 3 =>
             /\ run # "done"
             /\ counted[k] = 0
             /\ fetches[k] = 3
             /\ run = "fatal" => LocalPath(k) \notin exists

\* C5: completed <= discovered in every reachable state.
C5_CompletedAtMostDiscovered == completed <= discovered

\* C5's case: the counters meet while the run is still going, after two keys.
C5_Witness == Running /\ completed = 2 /\ discovered = 2

\* C6: Bounded concurrency.  The number of workers between invoking and
\* returning from Download never exceeds cfg.Concurrency.
C6_BoundedConcurrency == Cardinality(InFlight) <= concurrency

\* C6's case: as many fetches in flight as there are workers, two.
C6_Witness == concurrency = 2 /\ Cardinality(InFlight) = 2

\* C7: Backpressure without loss.  The buffer never holds more than its
\* capacity; every send that returns has put its key into a buffer that had
\* room (the Lister waited for room, it dropped nothing); and, with at least
\* one worker draining the channel, every key the Lister is sending (waiting
\* on a full buffer included) is eventually received by a worker, unless a
\* fatal abort ends the process first.
C7_BackpressureWithoutLoss ==
    /\ [](Len(chan) <= capacity)
    /\ [][\A k \in Keys :
            pushed'[k] # pushed[k]
               => Len(chan) < capacity /\ chan' = Append(chan, k)]_vars
    /\ \A k \in Keys :
         (pcL = "push" /\ CurrentKey = k /\ concurrency >= 1)
            ~> (delivered[k] = 1 \/ run = "fatal")

\* C7's case: more keys than the buffer holds, and a key whose send found
\* the buffer full has been received by a worker.
C7_Witness ==
    /\ Cardinality(Listed) > capacity
    /\ \E k \in everBlocked : delivered[k] = 1

\* C8: Run-to-completion.  Whenever main has returned, the Lister has
\* finished and every discovered key is completed.
C8_RunToCompletion ==
    run \in {"done", "version"}
        => /\ pcL \in {"unstarted", "done"}
           /\ completed = discovered

\* C9: A failed MkdirAll or Create is fatal at once for the whole run.  From
\* the failure on, no Download call is made for the key and it is not
\* counted; no other key is received by a worker, no Download call is made
\* for any key and finishedFiles stays as it is; and the run does not end
\* normally.
C9_PrepareFailureFatal ==
    [][prepFailed # {}
         => /\ \A k \in prepFailed : fetches'[k] = 0 /\ counted'[k] = 0
            /\ delivered' = delivered
            /\ fetches' = fetches
            /\ completed' = completed
            /\ run' # "done"]_vars

\* C10: After a failed page request the Lister has returned and closed the
\* channel, the failing request was its last, exactly the keys of the pages
\* before it were counted and sent, and when the run ends normally each of
\* those keys was delivered to a worker and processed.
C10_ListingFailure ==
    listErr
        => /\ pcL = "done"
           /\ closed
           /\ pageRequests = failAt
           /\ discovered = Cardinality(Listed)
           /\ \A k \in Keys : pushed[k] = (IF k \in Listed THEN 1 ELSE 0)
           /\ run = "done"
                => \A k \in Listed : delivered[k] = 1 /\ counted[k] = 1

\* Some error of a class other than a transient download error has
\* happened: a key's third attempt failed, or MkdirAll, Create, Seek or
\* Truncate failed.
FatalErrorOccurred ==
    \/ prepFailed # {}
    \/ resetFailed # {}
    \/ \E k \in Keys : failures[k] >= FinalAttempt

\* Every worker main was asked to start has been started and has left its
\* range loop.
AllWorkersExited ==
    /\ Len(workers) = concurrency
    /\ \A w \in 1..Len(workers) : workers[w].pc = "exited"

\* C11: A failed page request is not a run failure.  No fatal abort is ever
\* caused by the listing, and a run whose listing failed and whose fetches
\* all succeeded, once ended normally, has reported
\* completed = discovered = the number of keys of the pages fetched before
\* the failure.
C11_ListingFailureNotSurfaced ==
    /\ (listErr /\ run = "fatal")
          => cause.kind \in {"mkdir", "create", "exhausted", "seek", "truncate"}
    /\ (listErr /\ run = "done" /\ \A k \in Keys : failures[k] = 0)
          => /\ completed = Cardinality(Listed)
             /\ discovered = Cardinality(Listed)
             /\ report = completed

\* C12 as claimed: a listing error, an exhausted key and a filesystem error
\* each end the whole run, which therefore never ends normally after one;
\* only transient download errors do not.
C12_PropagationPolicy ==
    /\ (listErr \/ FatalErrorOccurred) => run # "done"
    /\ (run = "fatal" /\ cause.kind \notin MainExits) => (listErr \/ FatalErrorOccurred)

\* C12, amended: a third failed attempt and a failed MkdirAll, Create, Seek
\* or Truncate end the whole run, and nothing else does once main is past
\* config.Parse and the initialisation of the client (whose own errors end
\* the process before anything is listed).  The worker that detects one
\* goes on to nothing but the failure line of a third failed attempt, the
\* clean-up, the message and the exit of log.Fatalf, its key is never
\* counted, and the run never ends normally; every fatal exit after main's
\* own has one of these errors, on the key it names, as its cause.  A failed attempt
\* before the third is retried, and a failed page request ends the listing
\* only, the workers going on with the keys already sent.
C12_PropagationPolicyAmended ==
    /\ FatalErrorOccurred => run \in {"running", "fatal"}
    /\ \A k \in Keys :
         (k \in prepFailed \cup resetFailed \/ failures[k] >= FinalAttempt)
            => /\ counted[k] = 0
               /\ Holders(k) # {}
               /\ Holders(k) \subseteq Aborting \cup Logging
    /\ \A w \in Aborting :
         \/ KeyOf(w) \in prepFailed /\ workers[w].err \in {"mkdir", "create"}
         \/ KeyOf(w) \in resetFailed /\ workers[w].err \in {"seek", "truncate"}
         \/ failures[KeyOf(w)] = FinalAttempt /\ workers[w].err = "exhausted"
    /\ (run = "fatal" /\ cause.kind \notin MainExits) =>
          \E w \in Aborting : /\ workers[w].pc = "osexit"
                               /\ cause = [kind |-> workers[w].err,
                                           key |-> KeyOf(w)]

\* C12's case: after the listing failed, a key was retried twice and then
\* its reset failed, which ended the run.
C12_Witness ==
    /\ listErr
    /\ run = "fatal"
    /\ \E k \in resetFailed : failures[k] = 2 /\ cause.key = k

\* C13: Once the Lister has finished and every worker has left its loop,
\* completed = discovered exactly if no fatal error occurred.
C13_DrainedCountersAgree ==
    (pcL = "done" /\ AllWorkersExited)
        => ((completed = discovered) <=> run # "fatal")

\* C14: The channel is closed exactly once, by the Lister's return and by
\* no other goroutine, after a listing that succeeded and after one that
\* failed; only the Lister sends, and nothing is sent once it is closed.
C14_ClosedOnceByLister ==
    /\ [](closed <=> pcL = "done")
    /\ [][closed' # closed
            => /\ ~closed /\ closed'
               /\ pcL = "hasMore" /\ pcL' = "done"
               /\ workers' = workers /\ pcMain' = pcMain]_vars
    /\ [][closed => /\ closed'
                    /\ pushed' = pushed
                    /\ Len(chan') <= Len(chan)]_vars
    /\ [][(pushed' # pushed \/ Len(chan') > Len(chan))
            => /\ pcL = "push" /\ pcL' # "push"
               /\ workers' = workers /\ pcMain' = pcMain]_vars

\* C14's case: the listing failed and the channel is closed; the key sent
\* before the failure was received, and a worker has left its loop.
C14_Witness ==
    /\ closed /\ listErr
    /\ chan = << >>
    /\ \E k \in Keys : pushed[k] = 1 /\ delivered[k] = 1
    /\ \E w \in 1..Len(workers) : workers[w].pc = "exited"

\* The Lister has been started and has not returned.
ListerListing == pcL \in {"hasMore", "count", "push"}

\* C15: Transfers start before the listing is complete.  A worker waiting
\* in its range loop can take a key as soon as the buffer holds one, and a
\* worker that has taken a key can go on to MkdirAll, Create and the first
\* Download call, whether or not the Lister has finished or closed the
\* channel.
C15_TransfersStartDuringListing ==
    \A w \in 1..Len(workers) :
        /\ (Running /\ workers[w].pc = "recv" /\ chan # << >>)
              => ENABLED WorkerRecv(w)
        /\ (Running /\ workers[w].pc = "mkdir") => ENABLED WorkerMkdirAll(w)
        /\ (Running /\ workers[w].pc = "create") => ENABLED WorkerCreate(w)
        /\ (Running /\ workers[w].pc = "download")
              => ENABLED WorkerDownloadInvoke(w)

\* C15's case: 2 keys and 1 worker, and a fetch is in flight for the first
\* key while the Lister is still listing and the channel is open.
C15_Witness ==
    /\ concurrency = 1
    /\ Cardinality(Listed) = 2
    /\ InFlight # {}
    /\ ListerListing
    /\ ~closed

\* The keys of all the pages of the listing.
AllKeys == UNION {{pages[p][i] : i \in DOMAIN pages[p]} : p \in DOMAIN pages}

\* C17: When every page request succeeded and ListFiles has returned, each
\* key of each page was sent exactly once and no other key was, totalFiles
\* equals the number of keys, and the channel is closed, so that a worker
\* whose range finds it empty leaves its loop.  The listing may be a single
\* empty page.
C17_ListFilesSuccess ==
    /\ (pcL = "done" /\ ~listErr)
          => /\ \A k \in Keys : pushed[k] = (IF k \in AllKeys THEN 1 ELSE 0)
             /\ discovered = Cardinality(AllKeys)
             /\ closed
    /\ \A w \in 1..Len(workers) :
          (Running /\ workers[w].pc = "recv" /\ closed /\ chan = << >>)
              => ENABLED WorkerExit(w)

\* C17's case: two pages were listed without error, and a worker ranging
\* over the channel has left its loop.
C17_Witness ==
    /\ pcL = "done" /\ ~listErr
    /\ Len(pages) = 2
    /\ discovered = 2
    /\ \E w \in 1..Len(workers) : workers[w].pc = "exited"

\* C18: A key is never processed before it is discovered.  The listing
\* holds the keys 1, 2, ... in this order, so totalFiles includes key k
\* once it is at least k: that is so whenever k has been sent, is in the
\* buffer, or is held by a worker that prepares or fetches it.
C18_DiscoveredBeforeProcessed ==
    \A k \in Keys :
        (pushed[k] > 0 \/ InChan(k) > 0 \/ delivered[k] > 0 \/ Holders(k) # {})
            => discovered >= k

\* C18's case: a worker is at MkdirAll for the second key while the Lister
\* has not returned.
C18_Witness ==
    /\ ListerListing
    /\ \E w \in 1..Len(workers) : workers[w].pc = "mkdir" /\ KeyOf(w) = 2
    /\ discovered = 2

\* The workers that hold their destination file open: from os.Create to
\* the deferred file.Close() at downloadFile's return, or to the
\* file.Close() that precedes os.Remove after a fatal error.
FileOpen ==
    {w \in 1..Len(workers) :
        workers[w].pc \in {"download", "inflight", "logfail", "seek",
                           "truncate", "remove", "add", "load"}}

\* C16: A fatal abort triggered by one key ends the run at once.  From the
\* moment a worker has detected a fatal error, no transfer of another
\* worker is completed or counted; the only file ever deleted is the one of
\* a key whose worker is aborting; and the clean-up of the abort leaves the
\* file of every other worker that holds one open as it was, partial
\* content included.
C16_FatalAbortAbandonsOthers ==
    [][/\ Aborting # {}
            => /\ completed' = completed
               /\ counted' = counted
               /\ fetches' = fetches
       /\ \A p \in exists \ exists' :
            \E w \in Aborting : workers[w].pc = "remove" /\ p = LocalPathOf(w)
       /\ \A w \in Aborting : \A v \in FileOpen \ Aborting :
            (workers[w].pc = "remove" /\ workers'[w].pc = "fatalf")
               => /\ LocalPathOf(v) \in exists'
                  /\ content'[LocalPathOf(v)] = content[LocalPathOf(v)]]_vars

\* C19: Each key maps to a destination path of its own (the keys handed to
\* downloadFile have pairwise different local paths), so no two workers
\* ever hold the same destination file open for writing.
C19_UniqueDestinationPath ==
    /\ \A j, k \in Keys :
          (j # k /\ delivered[j] > 0 /\ delivered[k] > 0)
              => LocalPath(j) # LocalPath(k)
    /\ \A v, w \in FileOpen : v # w => LocalPathOf(v) # LocalPathOf(w)

\* The line names key k: it carries the key itself, or a path that ends with
\* the key as it is written.
NamesKey(l, k) ==
    IF "key" \in DOMAIN l
    THEN l.key = k
    ELSE l.path = Destination \o NameOf(naming, k)

\* C20: User-visible events.  The lines printed for a key are one failure
\* line per failed attempt, the third included, numbered 1, 2, ... and
\* naming the key, each printed before the next Download call or the abort
\* that follows the failure; then, once downloadFile has returned for the
\* key, exactly one progress line naming it, and none before; or, for a key
\* whose worker is aborting, the line of a failed Seek or Truncate if that
\* is the error, and the fatal message once log.Fatalf has printed it.  The
\* fatal message names the key and the error; when the process has ended in
\* a worker's log.Fatalf, it is the last line of that worker's key, printed
\* before the exit, and the one of an exhausted key comes after that key's
\* third failure line.
C20_UserVisibleEvents ==
    /\ \A k \in Keys :
         LET n == failures[k]
             printed == IF Holders(k) \cap Logging # {} THEN n - 1 ELSE n
             failureLines ==
                 [a \in 1..printed |->
                     [kind |-> "failure", key |-> k, attempt |-> a]]
             aborting == Holders(k) \cap Aborting
         IN  /\ fetches[k] <= n + 1
             /\ (Holders(k) \cap Logging # {}) => Running
             /\ IF counted[k] >= 1 /\ Holders(k) = {}
                THEN /\ Len(lines[k]) = n + 1
                     /\ SubSeq(lines[k], 1, n) = failureLines
                     /\ lines[k][n + 1].kind = "progress"
                     /\ lines[k][n + 1].key = k
                ELSE IF aborting = {}
                THEN lines[k] = failureLines
                ELSE LET w == CHOOSE v \in aborting : TRUE
                         r == IF k \in resetFailed THEN 1 ELSE 0
                         f == IF workers[w].pc = "osexit" THEN 1 ELSE 0
                     IN  /\ Len(lines[k]) = n + r + f
                         /\ SubSeq(lines[k], 1, n) = failureLines
                         /\ r = 1 => /\ lines[k][n + 1].kind = "reset"
                                     /\ lines[k][n + 1].call = workers[w].err
                         /\ f = 1 => /\ lines[k][n + r + 1].kind = "fatal"
                                     /\ lines[k][n + r + 1].call = workers[w].err
                                     /\ NamesKey(lines[k][n + r + 1], k)
    /\ (run = "fatal" /\ cause.kind \notin MainExits)
          => /\ cause.key \in Keys
             /\ lines[cause.key] # << >>
             /\ LET last == lines[cause.key][Len(lines[cause.key])]
                IN  /\ last.kind = "fatal"
                    /\ last.call = cause.kind
                    /\ NamesKey(last, cause.key)
             /\ cause.kind = "exhausted"
                  => /\ Len(lines[cause.key]) = 4
                     /\ lines[cause.key][3]
                           = [kind |-> "failure", key |-> cause.key,
                              attempt |-> 3]

\* C21: When Parse reports the version flag, main returns at once: the S3
\* client is not initialised (no region lookup, no fatal error from it),
\* the Lister is not started, nothing is counted or sent, and no worker is
\* started.
C21_VersionFlagReturns ==
    showVersion
        => /\ run = "version"
           /\ pcMain = "returned"
           /\ lookup = NoLookup
           /\ cause = NoCause
           /\ pcL = "unstarted"
           /\ chan = << >> /\ ~closed
           /\ discovered = 0
           /\ workers = << >> /\ wg = 0

\* C21's case: the version flag was given and main has returned.
C21_Witness == showVersion /\ pcMain = "returned"

\* C22: GetBucketRegion.  When the location lookup fails the result is an
\* error with an empty region; otherwise there is no error and the region
\* is "us-east-1" for an empty location constraint and the constraint
\* itself for any other.
C22_GetBucketRegion ==
    lookup.called
        => IF lookup.err
           THEN lookup.region = ""
           ELSE lookup.region = (IF lookup.constraint = "" THEN "us-east-1"
                                 ELSE lookup.constraint)

\* C22's case: the lookup answered with an empty location constraint and
\* initializeS3Client goes on with "us-east-1".
C22_Witness ==
    /\ pcMain = "client"
    /\ lookup.called /\ ~lookup.err
    /\ lookup.constraint = ""
    /\ lookup.region = "us-east-1"

\* C23: Retry budget.  A key whose worker is past the retry loop, or that
\* is counted, has had at least one Download call; no key has more than 3;
\* the calls of a key come one at a time, call k+1 only after call k
\* failed, so that the calls made are the failures plus at most one (the
\* call in flight, or the successful one); and no call follows a
\* successful one: a key that failed f <= 2 times and then succeeded has
\* had exactly f+1 calls.
C23_RetryBudget ==
    /\ [](\A k \in Keys :
            /\ fetches[k] <= 3
            /\ failures[k] <= fetches[k]
            /\ fetches[k] <= failures[k] + 1
            /\ counted[k] >= 1
                 => failures[k] <= 2 /\ fetches[k] = failures[k] + 1)
    /\ [](\A w \in 1..Len(workers) :
            /\ workers[w].pc \in {"add", "load"}
                 => /\ fetches[KeyOf(w)] >= 1
                    /\ fetches[KeyOf(w)] = failures[KeyOf(w)] + 1
            /\ (Running /\ workers[w].pc = "inflight")
                 => /\ fetches[KeyOf(w)] = workers[w].attempt
                    /\ failures[KeyOf(w)] = workers[w].attempt - 1)
    /\ [][\A k \in Keys :
            fetches'[k] # fetches[k]
               => /\ fetches'[k] = fetches[k] + 1
                  /\ failures[k] = fetches[k]
                  /\ counted[k] = 0]_vars

\* C23's case: a key failed twice, succeeded at its third call and is
\* counted.
C23_Witness ==
    \E k \in Keys : failures[k] = 2 /\ fetches[k] = 3 /\ counted[k] = 1

\* C24: Reset between attempts.  A worker about to call Download, for the
\* first attempt or after a failed one, has its destination file in place
\* and of zero length; a worker is at the Seek or the Truncate of the reset
\* only after a failed attempt that was not the third, the failures of its
\* key being the attempts made; and the third failure is followed by no
\* reset: the worker goes on only to the clean-up and log.Fatalf.
C24_ResetBetweenAttempts ==
    /\ \A w \in 1..Len(workers) :
         /\ (Running /\ workers[w].pc = "download")
               => /\ LocalPathOf(w) \in exists
                  /\ content[LocalPathOf(w)] = << >>
                  /\ failures[KeyOf(w)] = workers[w].attempt - 1
         /\ workers[w].pc \in {"seek", "truncate"}
               => /\ workers[w].attempt < 3
                  /\ failures[KeyOf(w)] = workers[w].attempt
         /\ workers[w].pc = "logfail"
               => failures[KeyOf(w)] = workers[w].attempt
    /\ \A k \in Keys :
         failures[k] >= 3 => /\ k \notin resetFailed
                             /\ Holders(k) \subseteq Aborting \cup Logging

\* C24's case: a failed attempt left two bytes in the file, the reset was
\* made, and the worker is about to call Download for the second attempt
\* on an empty file.
C24_Witness ==
    \E w \in 1..Len(workers) :
        /\ Running
        /\ workers[w].pc = "download"
        /\ workers[w].attempt = 2
        /\ content[LocalPathOf(w)] = << >>

\* The state of key k in the per-key state machine: Completed once it is
\* counted, FatalAborted once its third attempt has failed, Preparing or
\* Downloading(attempt) while a worker is inside downloadFile(k) before or
\* after os.Create returned (a worker on its way into log.Fatalf after a
\* failed MkdirAll, Create, Seek or Truncate leaves the key where it was),
\* Queued while it is in the buffer, and Unlisted before the Lister has
\* sent it.
KeyState(k) ==
    IF counted[k] >= 1 THEN <<"Completed", 0>>
    ELSE IF failures[k] >= 3 THEN <<"FatalAborted", 0>>
    ELSE IF Holders(k) # {}
         THEN LET w == CHOOSE v \in Holders(k) : TRUE
              IN  IF workers[w].attempt = 0
                  THEN <<"Preparing", 0>>
                  ELSE <<"Downloading", workers[w].attempt>>
    ELSE IF InChan(k) > 0 THEN <<"Queued", 0>>
    ELSE <<"Unlisted", 0>>

\* C25: Per-key state machine.  A key changes state only by
\* Unlisted -> Queued -> Preparing -> Downloading(1), Downloading(a) ->
\* Downloading(a+1) for a < 3, Downloading(a) -> Completed and
\* Downloading(3) -> FatalAborted; so Preparing is entered once, from
\* Queued, and never again on a retry, the attempts are 1..3, and nothing
\* leaves Completed or FatalAborted.
C25_PerKeyStateMachine ==
    [][\A k \in Keys :
         LET from == KeyState(k)
             to == KeyState(k)'
         IN  from # to
               => \/ from[1] = "Unlisted" /\ to[1] = "Queued"
                  \/ from[1] = "Queued" /\ to[1] = "Preparing"
                  \/ from[1] = "Preparing" /\ to = <<"Downloading", 1>>
                  \/ /\ from[1] = "Downloading" /\ to[1] = "Downloading"
                     /\ to[2] = from[2] + 1 /\ to[2] <= 3
                  \/ /\ from[1] = "Downloading" /\ from[2] \in 1..3
                     /\ to[1] = "Completed"
                  \/ from = <<"Downloading", 3>> /\ to[1] = "FatalAborted"]_vars

\* C25's case: one key went through a retry to Completed and another was
\* aborted after its third attempt.
C25_Witness ==
    \E j, k \in Keys :
        /\ KeyState(j)[1] = "Completed" /\ failures[j] = 1
        /\ KeyState(k)[1] = "FatalAborted"

\* C26: A worker leaves its range loop only when the channel is closed and
\* empty, every key sent having been received by then; and main passes
\* wg.Wait() only when every worker it started has left its loop.
C26_ExitOnClosedAndEmpty ==
    /\ [][\A w \in 1..Len(workers) :
            (workers[w].pc # "exited" /\ workers'[w].pc = "exited")
              => /\ workers[w].pc = "recv"
                 /\ closed /\ chan = << >>
                 /\ \A k \in Keys : delivered[k] = pushed[k]]_vars
    /\ [](\A w \in 1..Len(workers) :
            workers[w].pc = "exited" => closed /\ chan = << >>)
    /\ [](run = "done"
            => /\ Len(workers) = concurrency
               /\ wg = 0
               /\ \A w \in 1..Len(workers) : workers[w].pc = "exited")

\* C26's case: two workers were started, both keys were received, and main
\* has passed the barrier.
C26_Witness ==
    /\ run = "done" /\ Len(workers) = 2
    /\ \A w \in 1..Len(workers) : workers[w].pc = "exited"
    /\ \A k \in Keys : pushed[k] = 1 /\ delivered[k] = 1

\* The number of keys the Lister has sent so far.
NumPushed == Cardinality({k \in Keys : pushed[k] >= 1})

\* C27: The Lister counts a key in totalFiles and only then sends it,
\* blocked while the buffer is full: the buffer never holds more than its
\* capacity, and totalFiles exceeds the number of keys sent by 1 while the
\* Lister stands between the increment and the end of the send, and by 0
\* at every other time.
C27_CountThenBoundedPush ==
    /\ [](Len(chan) <= capacity)
    /\ [](discovered - NumPushed \in {0, 1})
    /\ []((discovered - NumPushed = 1) <=> (pcL = "push"))
    /\ []((pcL = "push" /\ Len(chan) >= capacity) => ~ENABLED ListerPush)
    /\ [][pushed' # pushed
            => /\ pcL = "push" /\ discovered' = discovered
               /\ discovered = NumPushed + 1
               /\ Len(chan) < capacity /\ chan' = Append(chan, CurrentKey)]_vars

\* C27's case: the Lister has counted the second key and its send is blocked
\* on the full buffer.
C27_Witness ==
    /\ pcL = "push" /\ Len(chan) = capacity
    /\ discovered = 2 /\ NumPushed = 1

\* C28: finishedFiles is incremented once per key and only on success: it
\* equals the number of keys whose download succeeded, a key that succeeded
\* after one or two failed attempts raised it by exactly 1, each change is
\* the +1 of a worker whose Download call just returned nil, and no failed
\* attempt and no fatal exit changes it.
C28_CompletedOncePerSuccess ==
    /\ [](\A k \in Keys : counted[k] <= 1
                          /\ (counted[k] = 1 => fetches[k] = failures[k] + 1))
    /\ [](completed = Cardinality({k \in Keys : counted[k] = 1}))
    /\ [][completed' # completed
            => /\ completed' = completed + 1
               /\ \E w \in 1..Len(workers) :
                    /\ workers[w].pc = "add"
                    /\ fetches[KeyOf(w)] = failures[KeyOf(w)] + 1
                    /\ counted[KeyOf(w)] = 0
                    /\ counted'[KeyOf(w)] = 1
                    /\ \A k \in Keys \ {KeyOf(w)} : counted'[k] = counted[k]]_vars
    /\ [][(failures' # failures \/ (run # "fatal" /\ run' = "fatal"))
            => completed' = completed]_vars

\* C28's case: one key succeeded at its third attempt, the other at its
\* second, and the counter stands at 2.
C28_Witness ==
    /\ completed = 2
    /\ \E j, k \in Keys : /\ failures[j] = 2 /\ counted[j] = 1
                          /\ failures[k] = 1 /\ counted[k] = 1

\* C29: The two counters only grow, by 1 at a time, and have different
\* writers: totalFiles changes only in a step of the Lister and
\* finishedFiles only in a step of a worker; no step of a worker or of main
\* changes totalFiles and no step of the Lister or of main changes
\* finishedFiles.
C29_CountersMonotonicDisjoint ==
    /\ [][/\ discovered' # discovered
             => /\ discovered' = discovered + 1
                /\ pcL = "count" /\ pcL' = "push"
                /\ workers' = workers /\ completed' = completed
          /\ completed' # completed
             => /\ completed' = completed + 1
                /\ \E w \in 1..Len(workers) : workers[w].pc = "add"
                                              /\ workers'[w].pc = "load"
                /\ listerVars' = listerVars /\ discovered' = discovered]_vars
    /\ [][(\E w \in 1..Len(workers) : WorkerStep(w))
            => discovered' = discovered]_vars
    /\ [][ListerStep => completed' = completed]_vars
    /\ [][MainStep => discovered' = discovered /\ completed' = completed]_vars

\* C29's case: both counters have been written, and stand at different
\* values.
C29_Witness ==
    /\ discovered = 2 /\ completed = 1
    /\ \E w \in 1..Len(workers) : workers[w].pc = "add"

\* C30: The channel is first in, first out.  Keys are numbered in listing
\* order, page by page; the Lister sends them in that order, the buffer
\* holds them in that order, behind every key already received, and the
\* workers, taken together, receive them in that order: a key is received
\* only from the head of the buffer, once, after every key listed before it
\* and before every key listed after it.
C30_QueueIsFifo ==
    /\ [](\A i, j \in 1..Len(chan) : i < j => chan[i] < chan[j])
    /\ [](\A i \in 1..Len(chan) : \A k \in Keys :
            delivered[k] >= 1 => k < chan[i])
    /\ [][\A k \in Keys :
            pushed'[k] # pushed[k]
              => /\ k = pages[pageIdx][objIdx + 1]
                 /\ \A j \in Keys : (j < k => pushed[j] = 1)
                                    /\ (j >= k => pushed[j] = 0)]_vars
    /\ [][\A k \in Keys :
            delivered'[k] # delivered[k]
              => /\ chan # << >> /\ k = Head(chan) /\ chan' = Tail(chan)
                 /\ \A j \in Keys : (j < k => delivered[j] = 1)
                                    /\ (j >= k => delivered[j] = 0)]_vars

\* C30's case: the buffer holds both keys at once, in listing order, and
\* two workers wait to receive from it.
C30_Witness ==
    /\ chan = <<1, 2>>
    /\ Len(workers) = 2
    /\ \A w \in 1..Len(workers) : workers[w].pc = "recv"

\* C31: A failed Seek or Truncate between two attempts is fatal at once and
\* is not retried.  The key has no further Download call (each call made
\* has failed) and is not counted in finishedFiles; from the failure on, no
\* key is received, fetched or counted by any worker; the run does not end
\* normally, and once the process has ended in log.Fatalf the key has no
\* destination file.
C31_ResetFailureIsFatal ==
    /\ [](\A k \in resetFailed :
            /\ counted[k] = 0
            /\ fetches[k] = failures[k] /\ failures[k] \in 1..2
            /\ run # "done"
            /\ run = "fatal" => LocalPath(k) \notin exists)
    /\ [][resetFailed # {}
            => /\ delivered' = delivered
               /\ fetches' = fetches
               /\ completed' = completed]_vars

\* The bytes of a sequence.
Bytes(f) == {f[i] : i \in 1..Len(f)}

\* C32: os.Create creates or truncates the file, so what a file of an
\* earlier run held at a key's local path does not survive: from Create on
\* the file holds no byte of it, once the key's Download call has succeeded
\* the file holds exactly the payload, and when the process has ended after
\* the key's third attempt failed there is no file at the path.
C32_OldContentNeverSurvives ==
    /\ \A w \in 1..Len(workers) :
         (Running /\ KeyOf(w) # 0 /\ LocalPathOf(w) \in stale)
           => /\ workers[w].pc \in {"download", "inflight", "logfail",
                                    "seek", "truncate", "add", "load"}
                   => Bytes(content[LocalPathOf(w)]) \cap Bytes(OldContent) = {}
              /\ workers[w].pc \in {"add", "load"}
                   => /\ LocalPathOf(w) \in exists
                      /\ content[LocalPathOf(w)] = Payload(KeyOf(w))
    /\ \A k \in Keys :
         (pushed[k] = 1 /\ LocalPath(k) \in stale /\ failures[k] >= 3
            /\ run = "fatal")
           => LocalPath(k) \notin exists

\* C32's case: a file of an earlier run stood at the key's path, and the
\* key was downloaded after a failed attempt.
C32_Witness ==
    \E k \in Keys : /\ LocalPath(k) \in stale
                    /\ counted[k] = 1 /\ failures[k] = 1
                    /\ content[LocalPath(k)] = Payload(k)

\* The number of keys handed to workers so far.
NumDelivered == Cardinality({k \in Keys : delivered[k] >= 1})

\* C33: When the run ends normally, the "All done!" line was printed after
\* wg.Wait() returned, every started worker having left its loop, and the
\* count it reports equals finishedFiles, which equals the number of keys
\* handed to workers and the final value of totalFiles.
C33_FinalReport ==
    run = "done"
        => /\ pcMain = "returned" /\ wg = 0
           /\ \A w \in 1..Len(workers) : workers[w].pc = "exited"
           /\ report = completed
           /\ completed = NumDelivered
           /\ completed = discovered

\* The Lister's send waits for room in the full buffer.
ListerBlocked == Running /\ pcL = "push" /\ Len(chan) >= capacity

\* C34: Termination.  With at least one worker, every run in which each
\* runnable goroutine is scheduled and each page request and Download call
\* returns ends, normally or in a fatal exit; and there is no deadlock: while
\* the run goes on some goroutine can take a step, and whenever the Lister
\* waits on the full buffer some started worker can take one.
C34_Termination ==
    /\ (concurrency >= 1) ~> (run \in {"done", "fatal"})
    /\ []((Running /\ concurrency >= 1) => ENABLED Next)
    /\ []((ListerBlocked /\ workers # << >>)
            => \E w \in 1..Len(workers) : ENABLED WorkerStep(w))

\* C34's case: the Lister waited on the full buffer, and the run has ended
\* normally with two workers and every listed key downloaded.
C34_Witness ==
    /\ run = "done" /\ concurrency = 2
    /\ everBlocked # {}
    /\ \A k \in Listed : counted[k] = 1

\* The progress lines printed so far.
ProgressLines ==
    UNION {{lines[k][i] : i \in {j \in 1..Len(lines[k]) :
                                   lines[k][j].kind = "progress"}} : k \in Keys}

\* C35: In every progress line the finished value, returned by
\* FinishedFiles.Add(1), is at most the total value, loaded from TotalFiles
\* by a later and separate operation; and when the run has ended normally,
\* the line that carries the final value of finishedFiles reports a total
\* equal to it, which is the final value of totalFiles.
C35_ProgressLineBounds ==
    /\ \A l \in ProgressLines : 1 <= l.finished /\ l.finished <= l.total
                                /\ l.total <= discovered
    /\ \A w \in 1..Len(workers) :
         workers[w].pc = "load" => workers[w].finished <= discovered
    /\ run = "done"
         => \A l \in ProgressLines :
              l.finished = completed
                => l.total = completed /\ l.total = discovered

\* C35's case: a run that ended normally printed a line with a total ahead
\* of its finished value and the line of the final value.
C35_Witness ==
    /\ run = "done"
    /\ \E l, m \in ProgressLines :
         /\ l.finished = 1 /\ l.total = 2
         /\ m.finished = 2 /\ m.total = 2 /\ completed = 2

\* The workers that have incremented finishedFiles and not yet printed.
AboutToPrint == {w \in 1..Len(workers) : workers[w].pc = "load"}

\* C36: The values returned by FinishedFiles.Add(1) are pairwise distinct
\* under every interleaving: the values printed in progress lines and those
\* held by workers about to print are each of 1..finishedFiles exactly once,
\* and when the run has ended normally with M keys downloaded, each of 1..M
\* stands in exactly one progress line.
C36_DistinctFinishedValues ==
    /\ \A l, m \in ProgressLines : l.finished = m.finished => l = m
    /\ \A v, w \in AboutToPrint :
         workers[v].finished = workers[w].finished => v = w
    /\ \A l \in ProgressLines : \A w \in AboutToPrint :
         l.finished # workers[w].finished
    /\ {l.finished : l \in ProgressLines}
         \cup {workers[w].finished : w \in AboutToPrint} = 1..completed
    /\ run = "done"
         => /\ Cardinality(ProgressLines) = completed
            /\ {l.finished : l \in ProgressLines} = 1..completed

\* C36's case: the key listed second was counted first, and the run ended
\* normally with both values printed.
C36_Witness ==
    /\ run = "done" /\ completed = 2
    /\ \E l, m \in ProgressLines :
         /\ l.finished = 1 /\ m.finished = 2
         /\ l.total = 2
         /\ l.key = 2 /\ m.key = 1

\* The workers inside downloadFile for a key not yet counted in
\* finishedFiles.
Uncounted ==
    {w \in 1..Len(workers) :
        workers[w].pc \in {"mkdir", "create", "download", "inflight",
                           "logfail", "seek", "truncate", "remove", "fatalf",
                           "osexit", "add"}}

\* C37: Bounded backlog.  totalFiles - finishedFiles is the number of keys
\* in the buffer, plus the workers inside downloadFile for a key not yet
\* counted, plus 1 while the Lister stands between the increment and the end
\* of the send; the buffer holds at most its capacity C and the workers are
\* at most W, so the difference is at most C + W + 1.
C37_BoundedBacklog ==
    /\ completed <= discovered
    /\ discovered - completed
         = Len(chan) + Cardinality(Uncounted) + (IF pcL = "push" THEN 1 ELSE 0)
    /\ Len(chan) <= capacity
    /\ Cardinality(Uncounted) <= Len(workers)
    /\ Len(workers) <= concurrency
    /\ discovered - completed <= capacity + concurrency + 1

\* C37's case: one key is held by a worker calling Download, the other
\* fills the buffer, and neither is counted in finishedFiles yet.
C37_Witness ==
    /\ Len(workers) >= 1 /\ InFlight # {}
    /\ Len(chan) = capacity
    /\ discovered - completed = 2

\* C38: For every key counted in finishedFiles, the file at the key's local
\* path exists and holds exactly the payload of the key's successful
\* Download call, in every state from the count on: no later step, of any
\* worker on any other key, changes or removes it.
C38_CompletedFilesStable ==
    /\ [](\A k \in Keys :
            counted[k] = 1 => /\ LocalPath(k) \in exists
                              /\ content[LocalPath(k)] = Payload(k))
    /\ [][\A k \in Keys :
            counted[k] = 1 => /\ LocalPath(k) \in exists'
                              /\ content'[LocalPath(k)] = content[LocalPath(k)]]_vars

\* The path lies inside the destination directory.
Inside(path) ==
    /\ Len(path) > Len(Destination)
    /\ SubSeq(path, 1, Len(Destination)) = Destination

\* C39: Path confinement.  Whatever key the Lister hands over, the local
\* path downloadFile creates, writes or removes lies inside the destination
\* directory, and so does every file the run has made.
C39_PathConfinement ==
    /\ \A k \in Keys : delivered[k] >= 1 => Inside(LocalPath(k))
    /\ \A p \in exists \ stale : Inside(p)

====
